---- MODULE Spec2Model ----
(***************************************************************************)
(* Model of env-saver (src/env-saver/src/main.rs) and of its pipe library  *)
(* named-pipe-manager (src/env-saver/lib-named-pipe-manager/src/lib.rs).   *)
(*                                                                         *)
(* Four specifications share the definitions below:                        *)
(*   PureSpec  the block parser and the environment differ of main.rs and  *)
(*             the pipe-name check of lib.rs, on inputs drawn in Init;     *)
(*   Spec      the server loop of main.rs serving client processes;        *)
(*   LiveSpec  the same with fair scheduling of both processes;            *)
(*   LibSpec   PipeServer / PipeClient driven by an arbitrary caller.      *)
(*                                                                         *)
(* Strings are sequences of characters.  Option<T> is a sequence of        *)
(* length 0 (None) or 1 (Some(v)).  HashMap<String,String> is a function   *)
(* from keys to values.                                                    *)
(***************************************************************************)
EXTENDS Integers, Sequences, FiniteSets, TLC

VARIABLES
    \* ---- PureSpec: inputs and results of the pure functions
    fstage,       \* "idle" | "input" | "parsed" | "diffed" | "reparsed" |
                  \*   "panicked" | "name" | "named"
    fBase,        \* raw baseline block
    fNew,         \* raw new block
    fOld,         \* parsed baseline mapping
    fEnv,         \* parsed new mapping
    fBuf,         \* buf of main.rs:127 after the loop, before trim_end
    fOut,         \* buf after trim_end (main.rs:140)
    fBack,        \* what the parser makes of fOut (Option)
    fName,        \* the name handed to PipeServer::new and PipeClient::new
    fServerName,  \* the pipe name PipeServer::new computed (Option)
    fClientName,  \* the pipe name PipeClient::new computed (Option)
    \* ---- the pipe library and the operating system's pipe
    server,       \* the PipeServer value (lib.rs 19-26)
    client,       \* the PipeClient value (lib.rs 231-235)
    pipe,         \* the named pipe: instance state, connection, bytes in flight
    \* ---- Spec: the server process of main.rs
    spc,          \* position in main: "start" | "wait" | "read" | "match" |
                  \*   "disconnect" | "panicked"
    sfail,        \* which unwrap() ended the server process ("" while it runs)
    data,         \* the request decoded at main.rs:107
    server_data,  \* main.rs:91
    old_env,      \* main.rs:97
    \* ---- Spec: the client process of main.rs
    cpc,          \* "none" | "write" | "read"
    cargs,        \* the client's mode, stdin and exit-code argument
    cout,         \* how the last readenv client ended: "" | "printed" | "panicked"
    \* ---- history of the exchanges, for stating the properties
    nRead,        \* request lines the server read on the current connection
    nWritten,     \* response lines the server wrote on the current connection
    gPush,        \* what the last served push stored (Option)
    gPulls,       \* pulls served since the last served push, saturating at 2
    gResp,        \* the response the server wrote to the last served pull
    gBase,        \* the mapping of the block of the last served baseline push
                  \*   and whether a pull was served since; None once a push
                  \*   was served (Option)
    \* ---- LibSpec: an arbitrary caller of the library
    hpc,          \* the two callers: "running" | "panicked" (an unwrap()
                  \*   inside the library ended the calling process)
    last,         \* the last &mut self call on the server session and on the
                  \*   client session, with its outcome; a clone() is entered
                  \*   only when it ended the caller
    accepted,     \* client connections accepted by wait() / wait_ms()
    twin          \* the PipeServer a clone() returned, while the caller holds
                  \*   it, with the state of the original at the call (Option)

fvars ==
    <<fstage, fBase, fNew, fOld, fEnv, fBuf, fOut, fBack,
      fName, fServerName, fClientName>>

libvars == <<server, client, pipe>>

srvvars == <<spc, sfail, data, server_data, old_env>>

clivars == <<cpc, cargs, cout>>

histvars == <<nRead, nWritten, gPush, gPulls, gResp, gBase>>

hvars == <<hpc, last, accepted, twin>>

vars == <<fvars, libvars, srvvars, clivars, histvars, hvars>>

\* ------------------------------------------------------------------------
\* Bounds of the model
\* ------------------------------------------------------------------------
MaxRecords == 2

\* PureSpec: characters of a pipe name after its prefix, if any
MaxNameLen == 2

\* LibSpec: connections a session accepts, lines a pipe direction holds
MaxConns == 3

MaxQueue == 1

\* LibSpec: the small limit a caller configures with in_buffer() / out_buffer()
SmallBuf == 60

\* ------------------------------------------------------------------------
\* Option<T>
\* ------------------------------------------------------------------------
None == <<>>

Some(v) == <<v>>

IsSome(o) == Len(o) = 1

IsNone(o) == Len(o) = 0

Unwrap(o) == o[1]

\* ------------------------------------------------------------------------
\* Characters and strings
\* ------------------------------------------------------------------------
CR == "CR"

LF == "LF"

SP == "SP"

EQ == "="

\* char::is_whitespace, on the characters of the model
IsWhitespace(c) == c \in {CR, LF, SP}

\* str::trim_end
RECURSIVE TrimEnd(_)
TrimEnd(s) ==
    IF Len(s) = 0 THEN s
    ELSE IF IsWhitespace(s[Len(s)]) THEN TrimEnd(SubSeq(s, 1, Len(s) - 1))
    ELSE s

\* index of the first "\r\n" in s, 0 when there is none
RECURSIVE FindCRLF(_, _)
FindCRLF(s, i) ==
    IF i + 1 > Len(s) THEN 0
    ELSE IF s[i] = CR /\ s[i + 1] = LF THEN i
    ELSE FindCRLF(s, i + 1)

\* str::split("\r\n"): the segments between separators, the last one included
RECURSIVE SplitCRLF(_)
SplitCRLF(s) ==
    LET i == FindCRLF(s, 1)
    IN  IF i = 0 THEN <<s>>
        ELSE <<SubSeq(s, 1, i - 1)>> \o SplitCRLF(SubSeq(s, i + 2, Len(s)))

\* index of the first "=" in s, 0 when there is none
RECURSIVE FindEq(_, _)
FindEq(s, i) ==
    IF i > Len(s) THEN 0
    ELSE IF s[i] = EQ THEN i
    ELSE FindEq(s, i + 1)

\* str::splitn(2, "="): one piece when there is no "=", else two
SplitN2(line) ==
    LET i == FindEq(line, 1)
    IN  IF i = 0 THEN <<line>>
        ELSE <<SubSeq(line, 1, i - 1), SubSeq(line, i + 1, Len(line))>>

\* HashMap::insert
Insert(m, k, v) == (k :> v) @@ m

EmptyMap == <<>>

\* the parse loop of main.rs (118-125 and 151-158): ok = FALSE is the panic of
\* collect_tuple().unwrap() on a record that does not split in two
RECURSIVE ParseLoop(_, _, _)
ParseLoop(lines, i, m) ==
    IF i > Len(lines) THEN [ok |-> TRUE, env |-> m]
    ELSE IF Len(lines[i]) # 0
         THEN LET kv == SplitN2(lines[i])
              IN  IF Len(kv) # 2 THEN [ok |-> FALSE, env |-> m]
                  ELSE ParseLoop(lines, i + 1, Insert(m, kv[1], kv[2]))
         ELSE ParseLoop(lines, i + 1, m)

ParseEnv(raw) == ParseLoop(SplitCRLF(raw), 1, EmptyMap)

\* format!("{}={}\n", k, v)
FormatPair(k, v) == k \o <<EQ>> \o v \o <<LF>>

\* mutant of KeySelected: the else-if branch (modified value) is missing
KeySelectedNewOnly(old, new, k) == ~(k \in DOMAIN old)

\* the test of main.rs 131-137: the key is new, or its value was modified
KeySelected(old, new, k) ==
    IF ~(k \in DOMAIN old) THEN TRUE
    ELSE IF old[k] # new[k] THEN TRUE
    ELSE FALSE

\* the diff loop of main.rs 129-138 over the keys of new_env in iteration
\* order `order`
RECURSIVE DiffLoop(_, _, _, _, _)
DiffLoop(order, i, old, new, buf) ==
    IF i > Len(order) THEN buf
    ELSE LET k == order[i]
         IN  IF KeySelected(old, new, k)
             THEN DiffLoop(order, i + 1, old, new, buf \o FormatPair(k, new[k]))
             ELSE DiffLoop(order, i + 1, old, new, buf)

\* mutant of SerializeEnv: buf is stored without trim_end
SerializeEnvUntrimmed(order, new) == DiffLoop(order, 1, EmptyMap, new, <<>>)

\* main.rs 127-140 for a mapping all of whose keys are selected: the pairs
\* formatted with a trailing \n each, then trim_end
SerializeEnv(order, new) == TrimEnd(DiffLoop(order, 1, EmptyMap, new, <<>>))

\* the iteration orders a HashMap with these keys can produce
Orders(keys) ==
    {o \in [1 .. Cardinality(keys) -> keys] :
        \A i, j \in 1 .. Cardinality(keys) : o[i] = o[j] => i = j}

\* ------------------------------------------------------------------------
\* Pipe names (lib.rs 321-332)
\* ------------------------------------------------------------------------
BS == "\\"

\* r"\\.\pipe\"
PipeSyntax == <<BS, BS, ".", BS, "p", "i", "p", "e", BS>>

\* str::starts_with
StartsWith(s, pre) == Len(s) >= Len(pre) /\ SubSeq(s, 1, Len(pre)) = pre

\* mutant of CheckPipeNameSyntax: the prefix is inserted without the test
CheckPipeNameSyntaxAlways(name) == PipeSyntax \o name

CheckPipeNameSyntax(name) ==
    IF ~StartsWith(name, PipeSyntax) THEN PipeSyntax \o name ELSE name

\* PipeServer::new (lib.rs 32-35): the name PipeOptions::new is given
ServerPipeName(name) == CheckPipeNameSyntax(name)

\* PipeClient::new (lib.rs 239-243): the name field
ClientPipeName(name) == CheckPipeNameSyntax(name)

\* names handed to new(): short names, the same after the prefix, after the
\* prefix less its last character, and after two prefixes
ShortNames == UNION {[1 .. n -> {BS, "e"}] : n \in 0 .. MaxNameLen}

Names ==
    ShortNames
      \cup {PipeSyntax \o n : n \in ShortNames}
      \cup {SubSeq(PipeSyntax, 1, 8) \o n : n \in ShortNames}
      \cup {PipeSyntax \o PipeSyntax \o n : n \in ShortNames}

\* ------------------------------------------------------------------------
\* Inputs: raw environment blocks as the client reads them from stdin
\* ------------------------------------------------------------------------
Records ==
    { <<"A", EQ, "1">>,
      <<"B", EQ, "2">>,
      <<"B", EQ, "2", SP>>,
      <<"A">> }

RECURSIVE JoinCRLF(_)
JoinCRLF(lines) ==
    IF Len(lines) = 0 THEN <<>>
    ELSE Head(lines) \o <<CR, LF>> \o JoinCRLF(Tail(lines))

Blocks ==
    {JoinCRLF(ls) : ls \in UNION {[1 .. n -> Records] : n \in 0 .. MaxRecords}}

\* the blocks the pure functions are applied to: a record with an empty key
\* is among them
PureRecords == Records \cup {<<EQ, "1">>}

PureBlocks ==
    {JoinCRLF(ls) :
        ls \in UNION {[1 .. n -> PureRecords] : n \in 0 .. MaxRecords}}

\* ------------------------------------------------------------------------
\* EnvironmentData (main.rs 21-25) and its JSON line
\* ------------------------------------------------------------------------
EnvData(cmd, code, env) == [command |-> cmd, exit_code |-> code, env_vars |-> env]

\* a value of the type T handed to write<T>: EnvironmentData, or another type
EnvValue(d) == [ty |-> "EnvironmentData", val |-> d]

OtherValue == [ty |-> "Other", val |-> EnvData(None, None, None)]

RECURSIVE NumLen(_)
NumLen(n) == IF n < 10 THEN 1 ELSE 1 + NumLen(n \div 10)

\* serde_json escapes \r and \n as two characters each
RECURSIVE StrBodyLen(_)
StrBodyLen(s) ==
    IF Len(s) = 0 THEN 0
    ELSE (IF Head(s) \in {CR, LF} THEN 2 ELSE 1) + StrBodyLen(Tail(s))

\* length of serde_json::to_string of an EnvironmentData:
\* {"command":C,"exit_code":N,"env_vars":S}
JsonLen(d) ==
    37 + (IF IsNone(d.command) THEN 4
          ELSE IF Unwrap(d.command) = "OldEnv" THEN 8 ELSE 9)
       + (IF IsNone(d.exit_code) THEN 4 ELSE NumLen(Unwrap(d.exit_code)))
       + (IF IsNone(d.env_vars) THEN 4 ELSE 2 + StrBodyLen(Unwrap(d.env_vars)))

\* serde_json::to_string(data) followed by push('\n') (lib.rs 213-214, 307-308):
\* the line on the wire, with its length in bytes
ToLine(v) ==
    [ty |-> v.ty, val |-> v.val,
     len |-> IF v.ty = "EnvironmentData" THEN JsonLen(v.val) + 1 ELSE 3]

\* serde_json::from_str::<EnvironmentData> succeeds on this line
Decodable(line) == line.ty = "EnvironmentData"

\* ------------------------------------------------------------------------
\* The named pipe, as the named_pipe crate and the OS present it.
\*   inst : the server's pipe instance: "none" (no handle), "listening"
\*          (ConnectingServer), "connected" (PipeServer stream)
\*   conn : the ends of the client's connection: "idle" (no client),
\*          "both", "clientGone" (client closed, server end attached),
\*          "serverGone" (server disconnected or dropped, client end open)
\*   c2s, s2c : lines in flight
\* ------------------------------------------------------------------------
NoPipe == [inst |-> "none", conn |-> "idle", c2s |-> <<>>, s2c |-> <<>>]

\* the server end goes away: disconnect() (inst = "listening") or the stream or
\* listener handle is dropped (inst = "none"); unread requests are discarded
ServerEndGone(p, inst) ==
    [p EXCEPT !.inst = inst,
              !.conn = CASE p.conn = "both" -> "serverGone"
                         [] p.conn = "clientGone" -> "idle"
                         [] OTHER -> p.conn,
              !.c2s = <<>>,
              !.s2c = IF p.conn = "clientGone" THEN <<>> ELSE p.s2c]

\* the client end is closed (the client's stream is dropped)
ClientEndGone(p) ==
    [p EXCEPT !.conn = CASE p.conn = "both" -> "clientGone"
                         [] p.conn = "serverGone" -> "idle"
                         [] OTHER -> p.conn,
              !.s2c = <<>>]

\* ------------------------------------------------------------------------
\* PipeServer (lib.rs 19-228).  Each method is an operator from the session
\* s, the pipe p and the outcome of the OS call to the new session, the new
\* pipe and the io::Result ("Panic" is an unwrap() inside the method).
\* ------------------------------------------------------------------------
DefaultBuf == 65536

NewServer(inb, outb) ==
    [buffer |-> None, connecting_server |-> None, started_server |-> FALSE,
     out_buffer |-> outb, in_buffer |-> inb]

\* mutant of ServerStart: the started flag is not tested
ServerStartAgain(s, p, osOk) ==
    IF osOk
    THEN [srv |-> [s EXCEPT !.connecting_server = Some("listener"),
                            !.started_server = TRUE],
          pipe |-> [p EXCEPT !.inst = "listening"],
          res |-> "Ok"]
    ELSE [srv |-> s, pipe |-> p, res |-> "ErrOther"]

\* start() (lib.rs 91-103)
ServerStart(s, p, osOk) ==
    IF ~s.started_server
    THEN IF osOk
         THEN [srv |-> [s EXCEPT !.connecting_server = Some("listener"),
                                 !.started_server = TRUE],
               pipe |-> [p EXCEPT !.inst = "listening"],
               res |-> "Ok"]
         ELSE [srv |-> s, pipe |-> p, res |-> "ErrOther"]
    ELSE [srv |-> s, pipe |-> p, res |-> "ErrAlreadyExists"]

\* clone() (lib.rs 75-89): the configuration is copied, the slot and the
\* listener handle start empty, and the clone is started only when the
\* original holds its listener handle; start().unwrap() panics when the OS
\* gives no new instance
ServerClone(s, p, osOk) ==
    LET newserver == [s EXCEPT !.buffer = None,
                               !.connecting_server = None,
                               !.started_server = FALSE]
    IN  IF IsSome(s.connecting_server)
        THEN LET r == ServerStart(newserver, NoPipe, osOk)
             IN  IF r.res = "Ok"
                 THEN [srv |-> s, pipe |-> p, res |-> "Ok", clone |-> Some(r.srv)]
                 ELSE [srv |-> s, pipe |-> p, res |-> "Panic", clone |-> None]
        ELSE [srv |-> s, pipe |-> p, res |-> "Ok", clone |-> Some(newserver)]

\* wait() returns once a client has connected to the instance
ServerWaitReady(s, p) == IsNone(s.connecting_server) \/ p.inst = "connected"

ServerWait(s, p) ==
    IF IsNone(s.connecting_server)
    THEN [srv |-> s, pipe |-> p, res |-> "ErrNotConnected"]
    ELSE [srv |-> [s EXCEPT !.connecting_server = None,
                            !.buffer = Some("stream")],
          pipe |-> p, res |-> "Ok"]

\* wait_ms(): ConnectingServer::wait_ms gives Ok(Err(listener)) on timeout, and
\* the second unwrap() of lib.rs:167 panics on it, the listener already taken
ServerWaitMs(s, p, timedOut) ==
    IF IsNone(s.connecting_server)
    THEN [srv |-> s, pipe |-> p, res |-> "ErrNotConnected"]
    ELSE IF timedOut
         THEN [srv |-> [s EXCEPT !.connecting_server = None],
               pipe |-> ServerEndGone(p, "none"), res |-> "Panic"]
         ELSE [srv |-> [s EXCEPT !.connecting_server = None,
                                 !.buffer = Some("stream")],
               pipe |-> p, res |-> "Ok"]

\* read_line returns once a line is there or the peer has closed
ServerReadReady(s, p) ==
    IsNone(s.buffer) \/ p.c2s # <<>> \/ p.conn # "both"

\* read(): io is what read_line gives once the peer has closed with nothing
\* left to read: "eof" (Ok(0)) or "err".  On the three early returns the
\* local `stream` is dropped and the slot stays empty.
ServerRead(s, p, io) ==
    IF IsNone(s.buffer)
    THEN [srv |-> s, pipe |-> p, res |-> "ErrNotFound", val |-> None]
    ELSE IF p.c2s = <<>>
         THEN IF io = "err"
              THEN [srv |-> [s EXCEPT !.buffer = None],
                    pipe |-> ServerEndGone(p, "none"),
                    res |-> "ErrIo", val |-> None]
              ELSE [srv |-> s, pipe |-> p, res |-> "Ok", val |-> None]
         ELSE LET line == Head(p.c2s)
                  p1 == [p EXCEPT !.c2s = Tail(p.c2s)]
              IN  IF line.len > s.in_buffer
                  THEN [srv |-> [s EXCEPT !.buffer = None],
                        pipe |-> ServerEndGone(p1, "none"),
                        res |-> "ErrTooLarge", val |-> None]
                  ELSE IF ~Decodable(line)
                       THEN [srv |-> [s EXCEPT !.buffer = None],
                             pipe |-> ServerEndGone(p1, "none"),
                             res |-> "ErrDecode", val |-> None]
                       ELSE [srv |-> s, pipe |-> p1,
                             res |-> "Ok", val |-> Some(line.val)]

\* mutant of ServerWrite: the line never leaves the session (no write_all)
ServerWriteNothing(s, p, v) ==
    IF IsNone(s.buffer)
    THEN [srv |-> s, pipe |-> p, res |-> "ErrNotFound"]
    ELSE [srv |-> s, pipe |-> p, res |-> "Ok"]

\* write(): on the early returns the local `stream` is dropped
ServerWrite(s, p, v) ==
    IF IsNone(s.buffer)
    THEN [srv |-> s, pipe |-> p, res |-> "ErrNotFound"]
    ELSE LET line == ToLine(v)
         IN  IF line.len > s.out_buffer
             THEN [srv |-> [s EXCEPT !.buffer = None],
                   pipe |-> ServerEndGone(p, "none"), res |-> "ErrTooLarge"]
             ELSE IF p.conn # "both"
                  THEN [srv |-> [s EXCEPT !.buffer = None],
                        pipe |-> ServerEndGone(p, "none"), res |-> "ErrIo"]
                  ELSE [srv |-> s,
                        pipe |-> [p EXCEPT !.s2c = Append(p.s2c, line)],
                        res |-> "Ok"]

\* mutant of ServerDisconnect: the listener is not put back
ServerDisconnectNoRearm(s, p) ==
    IF IsNone(s.buffer)
    THEN [srv |-> s, pipe |-> p, res |-> "Panic"]
    ELSE [srv |-> [s EXCEPT !.buffer = None],
          pipe |-> ServerEndGone(p, "none"), res |-> "Ok"]

\* disconnect() (lib.rs 143-149): buffer.take().unwrap() panics on an empty slot
ServerDisconnect(s, p) ==
    IF IsNone(s.buffer)
    THEN [srv |-> s, pipe |-> p, res |-> "Panic"]
    ELSE [srv |-> [s EXCEPT !.buffer = None,
                            !.connecting_server = Some("listener")],
          pipe |-> ServerEndGone(p, "listening"), res |-> "Ok"]

\* ------------------------------------------------------------------------
\* PipeClient (lib.rs 231-318)
\* ------------------------------------------------------------------------
NewClient == [buffer |-> None, connected |-> FALSE]

\* connect() waits while the only instance is busy with another client
ClientConnectReady(p) == p.inst # "connected"

\* mutant of ClientConnect: connected is set before the OS call is made
ClientConnectFlagFirst(c, p) ==
    IF p.inst = "listening"
    THEN [cli |-> [buffer |-> Some("stream"), connected |-> TRUE],
          pipe |-> [p EXCEPT !.inst = "connected", !.conn = "both",
                             !.s2c = <<>>],
          res |-> "Ok"]
    ELSE [cli |-> [c EXCEPT !.connected = TRUE], pipe |-> p, res |-> "ErrIo"]

\* connect() (lib.rs 249-259): on Err the method returns before any assignment
ClientConnect(c, p) ==
    IF p.inst = "listening"
    THEN [cli |-> [buffer |-> Some("stream"), connected |-> TRUE],
          pipe |-> [p EXCEPT !.inst = "connected", !.conn = "both",
                             !.s2c = <<>>],
          res |-> "Ok"]
    ELSE [cli |-> c, pipe |-> p, res |-> "ErrIo"]

ClientReadReady(c, p) ==
    ~c.connected \/ IsNone(c.buffer) \/ p.s2c # <<>> \/ p.conn # "both"

ClientRead(c, p, io) ==
    IF ~c.connected
    THEN [cli |-> c, pipe |-> p, res |-> "ErrNotFound", val |-> None]
    ELSE IF IsNone(c.buffer)
    THEN [cli |-> c, pipe |-> p, res |-> "Panic", val |-> None]
    ELSE IF p.s2c = <<>>
         THEN IF io = "err"
              THEN [cli |-> [c EXCEPT !.buffer = None],
                    pipe |-> ClientEndGone(p),
                    res |-> "ErrIo", val |-> None]
              ELSE [cli |-> c, pipe |-> p, res |-> "Ok", val |-> None]
         ELSE LET line == Head(p.s2c)
                  p1 == [p EXCEPT !.s2c = Tail(p.s2c)]
              IN  IF ~Decodable(line)
                  THEN [cli |-> [c EXCEPT !.buffer = None],
                        pipe |-> ClientEndGone(p1),
                        res |-> "ErrDecode", val |-> None]
                  ELSE [cli |-> c, pipe |-> p1,
                        res |-> "Ok", val |-> Some(line.val)]

\* mutant of ClientWrite: the line stays in the BufStream (no flush)
ClientWriteUnflushed(c, p, v) ==
    IF ~c.connected
    THEN [cli |-> c, pipe |-> p, res |-> "ErrNotFound"]
    ELSE IF IsNone(c.buffer)
    THEN [cli |-> c, pipe |-> p, res |-> "Panic"]
    ELSE [cli |-> c, pipe |-> p, res |-> "Ok"]

ClientWrite(c, p, v) ==
    IF ~c.connected
    THEN [cli |-> c, pipe |-> p, res |-> "ErrNotFound"]
    ELSE IF IsNone(c.buffer)
    THEN [cli |-> c, pipe |-> p, res |-> "Panic"]
    ELSE IF p.conn # "both"
         THEN [cli |-> [c EXCEPT !.buffer = None],
               pipe |-> ClientEndGone(p), res |-> "ErrIo"]
         ELSE [cli |-> c,
               pipe |-> [p EXCEPT !.c2s = Append(p.c2s, ToLine(v))],
               res |-> "Ok"]

\* ------------------------------------------------------------------------
\* Values the variables of a specification hold while another one runs
\* ------------------------------------------------------------------------
NoData == EnvData(None, None, None)

NoArgs == [mode |-> "nomode", stdin |-> <<>>, exitcode |-> 0]

\* a library call: the method, its io::Result, the serialized length of what
\* it was given to write, the lines it put on the wire, whether the slot held
\* a stream on entry, and the method and result of the call before it on the
\* same session
NoCall ==
    [op |-> "new", res |-> "Ok", len |-> 0, sent |-> 0, had |-> FALSE,
     prev |-> [op |-> "new", res |-> "Ok"]]

PureIdle ==
    /\ fstage = "idle"
    /\ fBase = <<>>
    /\ fNew = <<>>
    /\ fOld = EmptyMap
    /\ fEnv = EmptyMap
    /\ fBuf = <<>>
    /\ fOut = <<>>
    /\ fBack = None
    /\ fName = <<>>
    /\ fServerName = None
    /\ fClientName = None

MainIdle ==
    /\ spc = "idle"
    /\ sfail = ""
    /\ data = NoData
    /\ server_data = NoData
    /\ old_env = None
    /\ cpc = "none"
    /\ cargs = NoArgs
    /\ cout = ""
    /\ nRead = 0
    /\ nWritten = 0
    /\ gPush = None
    /\ gPulls = 0
    /\ gResp = None
    /\ gBase = None

HarnessIdle ==
    /\ hpc = [srv |-> "idle", cli |-> "idle"]
    /\ last = [srv |-> NoCall, cli |-> NoCall]
    /\ accepted = 0
    /\ twin = None

\* ------------------------------------------------------------------------
\* PureSpec: the parser and the differ of main.rs on inputs drawn in Init
\* ------------------------------------------------------------------------
PureInit ==
    /\ \/ /\ fstage = "input"
          /\ fBase \in PureBlocks
          /\ fNew \in PureBlocks
          /\ fName = <<>>
       \/ /\ fstage = "name"
          /\ fBase = <<>>
          /\ fNew = <<>>
          /\ fName \in Names
    /\ fServerName = None
    /\ fClientName = None
    /\ fOld = EmptyMap
    /\ fEnv = EmptyMap
    /\ fBuf = <<>>
    /\ fOut = <<>>
    /\ fBack = None
    /\ server = NewServer(DefaultBuf, DefaultBuf)
    /\ client = NewClient
    /\ pipe = NoPipe
    /\ MainIdle
    /\ HarnessIdle

PureParse ==
    /\ fstage = "input"
    /\ LET b == ParseEnv(fBase)
           e == ParseEnv(fNew)
       IN  IF b.ok /\ e.ok
           THEN /\ fstage' = "parsed"
                /\ fOld' = b.env
                /\ fEnv' = e.env
           ELSE /\ fstage' = "panicked"
                /\ UNCHANGED <<fOld, fEnv>>
    /\ UNCHANGED <<fBase, fNew, fBuf, fOut, fBack>>
    /\ UNCHANGED <<fName, fServerName, fClientName>>
    /\ UNCHANGED <<libvars, srvvars, clivars, histvars, hvars>>

PureDiff ==
    /\ fstage = "parsed"
    /\ \E order \in Orders(DOMAIN fEnv) :
         /\ fBuf' = DiffLoop(order, 1, fOld, fEnv, <<>>)
         /\ fOut' = TrimEnd(fBuf')
    /\ fstage' = "diffed"
    /\ UNCHANGED <<fBase, fNew, fOld, fEnv, fBack>>
    /\ UNCHANGED <<fName, fServerName, fClientName>>
    /\ UNCHANGED <<libvars, srvvars, clivars, histvars, hvars>>

\* the server's block for a whole mapping (every key selected, as against an
\* empty baseline) is handed to the server's parser
PureRoundTrip ==
    /\ fstage = "parsed"
    /\ \E order \in Orders(DOMAIN fEnv) :
         /\ fBuf' = DiffLoop(order, 1, EmptyMap, fEnv, <<>>)
         /\ fOut' = SerializeEnv(order, fEnv)
         /\ fBack' = Some(ParseEnv(fOut'))
    /\ fstage' = "reparsed"
    /\ UNCHANGED <<fBase, fNew, fOld, fEnv>>
    /\ UNCHANGED <<fName, fServerName, fClientName>>
    /\ UNCHANGED <<libvars, srvvars, clivars, histvars, hvars>>

\* PipeServer::new(name) and PipeClient::new(name) on the same name
PureNew ==
    /\ fstage = "name"
    /\ fServerName' = Some(ServerPipeName(fName))
    /\ fClientName' = Some(ClientPipeName(fName))
    /\ fstage' = "named"
    /\ UNCHANGED <<fBase, fNew, fOld, fEnv, fBuf, fOut, fBack, fName>>
    /\ UNCHANGED <<libvars, srvvars, clivars, histvars, hvars>>

\* the computed pipe name is itself handed to new()
PureRename ==
    /\ fstage = "named"
    /\ fName # Unwrap(fServerName)
    /\ fName' = Unwrap(fServerName)
    /\ fServerName' = None
    /\ fClientName' = None
    /\ fstage' = "name"
    /\ UNCHANGED <<fBase, fNew, fOld, fEnv, fBuf, fOut, fBack>>
    /\ UNCHANGED <<libvars, srvvars, clivars, histvars, hvars>>

PureNext == PureParse \/ PureDiff \/ PureRoundTrip \/ PureNew \/ PureRename

PureSpec == PureInit /\ [][PureNext]_vars

\* ------------------------------------------------------------------------
\* Spec: the server process of main.rs (89-166) and its clients (169-206)
\* ------------------------------------------------------------------------
ExitCodes == {0, 3}

Modes == {"saveenv", "readenv", "oldenv", "nomode"}

IoOutcomes == {"eof", "err"}

Init ==
    /\ PureIdle
    /\ HarnessIdle
    /\ server = NewServer(DefaultBuf, DefaultBuf)
    /\ client = NewClient
    /\ pipe = NoPipe
    /\ spc = "start"
    /\ sfail = ""
    /\ data = NoData
    /\ server_data = NoData
    /\ old_env = None
    /\ cpc = "none"
    /\ cargs = NoArgs
    /\ cout = ""
    /\ nRead = 0
    /\ nWritten = 0
    /\ gPush = None
    /\ gPulls = 0
    /\ gResp = None
    /\ gBase = None

\* an unwrap() of main fails: the server process ends, its handles close and
\* its memory (data, server_data, old_env) is gone
ServerPanics(reason, srv, p) ==
    /\ spc' = "panicked"
    /\ sfail' = reason
    /\ server' = srv
    /\ pipe' = ServerEndGone(p, "none")
    /\ data' = NoData
    /\ server_data' = NoData
    /\ old_env' = None

\* main.rs:102  server.start().unwrap()
MainStart ==
    /\ spc = "start"
    /\ \E osOk \in BOOLEAN :
         LET r == ServerStart(server, pipe, osOk)
         IN  IF r.res = "Ok"
             THEN /\ server' = r.srv
                  /\ pipe' = r.pipe
                  /\ spc' = "wait"
                  /\ sfail' = sfail
                  /\ UNCHANGED <<data, server_data, old_env>>
             ELSE ServerPanics("Start", r.srv, r.pipe)
    /\ UNCHANGED client
    /\ UNCHANGED <<fvars, clivars, histvars, hvars>>

\* main.rs:105  server.wait().unwrap()
MainWait ==
    /\ spc = "wait"
    /\ ServerWaitReady(server, pipe)
    /\ LET r == ServerWait(server, pipe)
       IN  IF r.res = "Ok"
           THEN /\ server' = r.srv
                /\ pipe' = r.pipe
                /\ spc' = "read"
                /\ sfail' = sfail
                /\ UNCHANGED <<data, server_data, old_env>>
           ELSE ServerPanics("Wait", r.srv, r.pipe)
    /\ nRead' = 0
    /\ nWritten' = 0
    /\ UNCHANGED <<client, gPush, gPulls, gResp, gBase>>
    /\ UNCHANGED <<fvars, clivars, hvars>>

\* main.rs:107  server.read().unwrap().unwrap()
MainRead ==
    /\ spc = "read"
    /\ ServerReadReady(server, pipe)
    /\ \E io \in IoOutcomes :
         LET r == ServerRead(server, pipe, io)
         IN  IF r.res # "Ok"
             THEN /\ ServerPanics(r.res, r.srv, r.pipe)
                  /\ UNCHANGED nRead
             ELSE IF IsNone(r.val)
             THEN /\ ServerPanics("NoLine", r.srv, r.pipe)
                  /\ UNCHANGED nRead
             ELSE /\ server' = r.srv
                  /\ pipe' = r.pipe
                  /\ data' = Unwrap(r.val)
                  /\ nRead' = nRead + (Len(pipe.c2s) - Len(r.pipe.c2s))
                  /\ spc' = "match"
                  /\ sfail' = sfail
                  /\ UNCHANGED <<server_data, old_env>>
    /\ UNCHANGED <<client, nWritten, gPush, gPulls, gResp, gBase>>
    /\ UNCHANGED <<fvars, clivars, hvars>>

\* main.rs:108  data.command.unwrap() on a request without a command
MainNoCommand ==
    /\ spc = "match"
    /\ IsNone(data.command)
    /\ ServerPanics("NoCommand", server, pipe)
    /\ UNCHANGED client
    /\ UNCHANGED <<fvars, clivars, histvars, hvars>>

\* mutant of ClearStored: only the exit code is cleared
ClearStoredExitCodeOnly(sd) == [sd EXCEPT !.exit_code = None]

\* mutant of ClearStored: only the block is cleared
ClearStoredBlockOnly(sd) == [sd EXCEPT !.env_vars = None]

\* main.rs 111-112: the stored result is cleared once it was written
ClearStored(sd) == [sd EXCEPT !.env_vars = None, !.exit_code = None]

\* mutant of MainReadEnv: the pull also clears the stored baseline
MainReadEnvDropsBaseline ==
    /\ spc = "match"
    /\ data.command = Some("ReadEnv")
    /\ LET r == ServerWrite(server, pipe, EnvValue(server_data))
       IN  IF r.res = "Ok"
           THEN /\ server' = r.srv
                /\ pipe' = r.pipe
                /\ server_data' = ClearStored(server_data)
                /\ spc' = "disconnect"
                /\ sfail' = sfail
                /\ nWritten' = nWritten + (Len(r.pipe.s2c) - Len(pipe.s2c))
                /\ gResp' = IF r.pipe.s2c = <<>> THEN None
                            ELSE Some(r.pipe.s2c[Len(r.pipe.s2c)].val)
                /\ gPulls' = IF gPulls < 2 THEN gPulls + 1 ELSE 2
                /\ gBase' = IF IsNone(gBase) THEN None
                            ELSE Some([Unwrap(gBase) EXCEPT !.pulled = TRUE])
                /\ old_env' = None
                /\ UNCHANGED data
           ELSE /\ ServerPanics("Write", r.srv, r.pipe)
                /\ UNCHANGED <<nWritten, gResp, gPulls, gBase>>
    /\ UNCHANGED <<client, nRead, gPush>>
    /\ UNCHANGED <<fvars, clivars, hvars>>

\* main.rs 109-113  Command::ReadEnv
MainReadEnv ==
    /\ spc = "match"
    /\ data.command = Some("ReadEnv")
    /\ LET r == ServerWrite(server, pipe, EnvValue(server_data))
       IN  IF r.res = "Ok"
           THEN /\ server' = r.srv
                /\ pipe' = r.pipe
                /\ server_data' = ClearStored(server_data)
                /\ spc' = "disconnect"
                /\ sfail' = sfail
                /\ nWritten' = nWritten + (Len(r.pipe.s2c) - Len(pipe.s2c))
                /\ gResp' = IF r.pipe.s2c = <<>> THEN None
                            ELSE Some(r.pipe.s2c[Len(r.pipe.s2c)].val)
                /\ gPulls' = IF gPulls < 2 THEN gPulls + 1 ELSE 2
                /\ gBase' = IF IsNone(gBase) THEN None
                            ELSE Some([Unwrap(gBase) EXCEPT !.pulled = TRUE])
                /\ UNCHANGED <<data, old_env>>
           ELSE /\ ServerPanics("Write", r.srv, r.pipe)
                /\ UNCHANGED <<nWritten, gResp, gPulls, gBase>>
    /\ UNCHANGED <<client, nRead, gPush>>
    /\ UNCHANGED <<fvars, clivars, hvars>>

\* the block the pull after a push is said to carry: the selected KEY=VALUE
\* pairs, in iteration order, joined with \n
RECURSIVE JoinSelected(_, _, _, _)
JoinSelected(order, i, old, new) ==
    IF i > Len(order) THEN <<>>
    ELSE LET k == order[i]
             rest == JoinSelected(order, i + 1, old, new)
         IN  IF ~(k \in DOMAIN old) \/ old[k] # new[k]
             THEN k \o <<EQ>> \o new[k]
                    \o (IF rest = <<>> THEN <<>> ELSE <<LF>> \o rest)
             ELSE rest

\* main.rs 114-146  Command::SaveEnv
MainSaveEnv ==
    /\ spc = "match"
    /\ data.command = Some("SaveEnv")
    /\ IF IsNone(data.env_vars)
       THEN /\ ServerPanics("NoEnvVars", server, pipe)
            /\ UNCHANGED <<gPush, gPulls, gResp, gBase>>
       ELSE LET new_env == ParseEnv(Unwrap(data.env_vars))
            IN  IF ~new_env.ok
                THEN /\ ServerPanics("Parse", server, pipe)
                     /\ UNCHANGED <<gPush, gPulls, gResp, gBase>>
                ELSE IF IsNone(old_env)
                THEN /\ ServerPanics("MissingBaseline", server, pipe)
                     /\ UNCHANGED <<gPush, gPulls, gResp, gBase>>
                ELSE IF IsNone(data.exit_code)
                THEN /\ ServerPanics("NoExitCode", server, pipe)
                     /\ UNCHANGED <<gPush, gPulls, gResp, gBase>>
                ELSE \E order \in Orders(DOMAIN new_env.env) :
                       LET old_owned == Unwrap(old_env)
                           buf == TrimEnd(DiffLoop(order, 1, old_owned,
                                                   new_env.env, <<>>))
                       IN  /\ old_env' = None
                           /\ server_data' =
                                [server_data EXCEPT
                                   !.env_vars = Some(buf),
                                   !.exit_code = Some(Unwrap(data.exit_code))]
                           /\ gPush' = Some([exit_code |-> data.exit_code,
                                             env_vars |-> Some(buf),
                                             claimed |-> JoinSelected(order, 1,
                                                old_owned, new_env.env),
                                             pulled |-> IsSome(gBase) /\
                                                Unwrap(gBase).pulled])
                           /\ gPulls' = 0
                           /\ gResp' = None
                           /\ gBase' = None
                           /\ spc' = "disconnect"
                           /\ sfail' = sfail
                           /\ UNCHANGED <<server, pipe, data>>
    /\ UNCHANGED <<client, nRead, nWritten>>
    /\ UNCHANGED <<fvars, clivars, hvars>>

\* mutant of MainOldEnv: the new baseline is merged over the stored one
MainOldEnvMerging ==
    /\ spc = "match"
    /\ data.command = Some("OldEnv")
    /\ IF IsNone(data.env_vars)
       THEN ServerPanics("NoEnvVars", server, pipe)
       ELSE LET old_vars == ParseEnv(Unwrap(data.env_vars))
            IN  IF ~old_vars.ok
                THEN ServerPanics("Parse", server, pipe)
                ELSE /\ old_env' = Some(old_vars.env @@
                                        (IF IsSome(old_env) THEN Unwrap(old_env)
                                         ELSE EmptyMap))
                     /\ spc' = "disconnect"
                     /\ sfail' = sfail
                     /\ UNCHANGED <<server, pipe, data, server_data>>
    /\ gBase' = IF IsSome(data.env_vars) /\ ParseEnv(Unwrap(data.env_vars)).ok
                THEN Some([env |-> ParseEnv(Unwrap(data.env_vars)).env,
                           pulled |-> FALSE])
                ELSE gBase
    /\ UNCHANGED <<client, nRead, nWritten, gPush, gPulls, gResp>>
    /\ UNCHANGED <<fvars, clivars, hvars>>

\* main.rs 147-161  Command::OldEnv
MainOldEnv ==
    /\ spc = "match"
    /\ data.command = Some("OldEnv")
    /\ IF IsNone(data.env_vars)
       THEN ServerPanics("NoEnvVars", server, pipe)
       ELSE LET old_vars == ParseEnv(Unwrap(data.env_vars))
            IN  IF ~old_vars.ok
                THEN ServerPanics("Parse", server, pipe)
                ELSE /\ old_env' = Some(old_vars.env)
                     /\ spc' = "disconnect"
                     /\ sfail' = sfail
                     /\ UNCHANGED <<server, pipe, data, server_data>>
    /\ gBase' = IF IsSome(data.env_vars) /\ ParseEnv(Unwrap(data.env_vars)).ok
                THEN Some([env |-> ParseEnv(Unwrap(data.env_vars)).env,
                           pulled |-> FALSE])
                ELSE gBase
    /\ UNCHANGED <<client, nRead, nWritten, gPush, gPulls, gResp>>
    /\ UNCHANGED <<fvars, clivars, hvars>>

\* main.rs:165  server.disconnect().unwrap(); `data` goes out of scope at the
\* end of the loop body
MainDisconnect ==
    /\ spc = "disconnect"
    /\ LET r == ServerDisconnect(server, pipe)
       IN  IF r.res = "Ok"
           THEN /\ server' = r.srv
                /\ pipe' = r.pipe
                /\ spc' = "wait"
                /\ sfail' = sfail
                /\ data' = NoData
                /\ UNCHANGED <<server_data, old_env>>
           ELSE ServerPanics("Disconnect", r.srv, r.pipe)
    /\ UNCHANGED client
    /\ UNCHANGED <<fvars, clivars, histvars, hvars>>

\* the request a client mode sends (main.rs 180-187, 190, 197-203)
Request(args) ==
    CASE args.mode = "saveenv" ->
           EnvData(Some("SaveEnv"), Some(args.exitcode), Some(args.stdin))
      [] args.mode = "readenv" -> EnvData(Some("ReadEnv"), None, None)
      [] args.mode = "oldenv" -> EnvData(Some("OldEnv"), None, Some(args.stdin))
      [] OTHER -> NoData

\* the client process ends: its stream is dropped
ClientExits(p) ==
    /\ cpc' = "none"
    /\ client' = NewClient
    /\ cargs' = NoArgs
    /\ pipe' = ClientEndGone(p)

\* main.rs 176-177: a client process is started in one of its modes and
\* connects to the listening server
ClientStart(mode, stdin, exitcode) ==
    /\ cpc = "none"
    /\ pipe.inst = "listening"
    /\ pipe.conn = "idle"
    /\ LET r == ClientConnect(NewClient, pipe)
       IN  /\ client' = r.cli
           /\ pipe' = r.pipe
    /\ cpc' = "write"
    /\ cargs' = [mode |-> mode, stdin |-> stdin, exitcode |-> exitcode]
    /\ cout' = ""
    /\ UNCHANGED <<server, fvars, srvvars, histvars, hvars>>

\* main.rs 179-205: the mode's write; the push modes and the mode-less client
\* then end, the readenv client goes on to read
ClientSend ==
    /\ cpc = "write"
    /\ IF cargs.mode = "nomode"
       THEN ClientExits(pipe)
       ELSE LET r == ClientWrite(client, pipe, EnvValue(Request(cargs)))
            IN  IF r.res = "Ok" /\ cargs.mode = "readenv"
                THEN /\ cpc' = "read"
                     /\ client' = r.cli
                     /\ pipe' = r.pipe
                     /\ UNCHANGED cargs
                ELSE ClientExits(r.pipe)
    /\ UNCHANGED cout
    /\ UNCHANGED <<server, fvars, srvvars, histvars, hvars>>

\* main.rs 192-195: client.read().unwrap().unwrap() and the println
ClientReceive ==
    /\ cpc = "read"
    /\ ClientReadReady(client, pipe)
    /\ \E io \in IoOutcomes :
         LET r == ClientRead(client, pipe, io)
         IN  /\ ClientExits(r.pipe)
             /\ cout' = IF r.res = "Ok" /\ IsSome(r.val)
                        THEN "printed" ELSE "panicked"
    /\ UNCHANGED <<server, fvars, srvvars, histvars, hvars>>

\* the readenv client is interrupted (ctrl+c, main.rs:194) before its read
ClientKilled ==
    /\ cpc = "read"
    /\ ClientExits(pipe)
    /\ UNCHANGED cout
    /\ UNCHANGED <<server, fvars, srvvars, histvars, hvars>>

\* another process opens the pipe, sends one line and closes: a line that is
\* no EnvironmentData, or an EnvironmentData without a command
ForeignLines == {ToLine(OtherValue), ToLine(EnvValue(NoData))}

ForeignPeer(line) ==
    /\ cpc = "none"
    /\ pipe.inst = "listening"
    /\ pipe.conn = "idle"
    /\ pipe' = [pipe EXCEPT !.inst = "connected", !.conn = "clientGone",
                            !.c2s = <<line>>, !.s2c = <<>>]
    /\ UNCHANGED <<server, client, fvars, srvvars, clivars, histvars, hvars>>

Next ==
    \/ MainStart
    \/ MainWait
    \/ MainRead
    \/ MainNoCommand
    \/ MainReadEnv
    \/ MainSaveEnv
    \/ MainOldEnv
    \/ MainDisconnect
    \/ \E stdin \in Blocks, exitcode \in ExitCodes :
         ClientStart("saveenv", stdin, exitcode)
    \/ \E stdin \in Blocks : ClientStart("oldenv", stdin, 0)
    \/ ClientStart("readenv", <<>>, 0)
    \/ ClientStart("nomode", <<>>, 0)
    \/ ClientSend
    \/ ClientReceive
    \/ ClientKilled
    \/ \E line \in ForeignLines : ForeignPeer(line)

Spec == Init /\ [][Next]_vars

\* ------------------------------------------------------------------------
\* LiveSpec: the same server and clients, every client running to its end,
\* with blocks of one record and one exit code.  The server process and a started client
\* process are each scheduled again and again: a step of theirs that stays
\* possible is taken.
\* ------------------------------------------------------------------------
LiveBlocks == {JoinCRLF(<<r>>) : r \in Records \ {<<"B", EQ, "2", SP>>}}

ServerStep ==
    \/ MainStart
    \/ MainWait
    \/ MainRead
    \/ MainNoCommand
    \/ MainReadEnv
    \/ MainSaveEnv
    \/ MainOldEnv
    \/ MainDisconnect

ClientStep == ClientSend \/ ClientReceive

LiveNext ==
    \/ ServerStep
    \/ ClientStep
    \/ \E stdin \in LiveBlocks : ClientStart("saveenv", stdin, 3)
    \/ \E stdin \in LiveBlocks : ClientStart("oldenv", stdin, 0)
    \/ ClientStart("readenv", <<>>, 0)
    \/ ClientStart("nomode", <<>>, 0)
    \/ \E line \in ForeignLines : ForeignPeer(line)

LiveSpec ==
    /\ Init
    /\ [][LiveNext]_vars
    /\ WF_vars(ServerStep)
    /\ WF_vars(ClientStep)

\* ------------------------------------------------------------------------
\* LibSpec: one PipeServer and one PipeClient, each driven by a caller that
\* may call any method at any time and goes on after an Err.  A clone takes
\* no part in any step of the original or of the client, so the caller that
\* made one looks at it and drops it before the next step.
\* ------------------------------------------------------------------------
SmallReq == EnvData(Some("ReadEnv"), None, None)

BigReq == EnvData(Some("SaveEnv"), Some(3), Some(JoinCRLF(<<<<"A", EQ, "1">>, <<"B", EQ, "2">>>>)))

LibPayloads == {EnvValue(SmallReq), EnvValue(BigReq), OtherValue}

LibInit ==
    /\ PureIdle
    /\ MainIdle
    /\ hpc = [srv |-> "running", cli |-> "running"]
    /\ last = [srv |-> NoCall, cli |-> NoCall]
    /\ accepted = 0
    /\ twin = None
    /\ \E inb \in {DefaultBuf, SmallBuf}, outb \in {DefaultBuf, SmallBuf} :
         server = NewServer(inb, outb)
    /\ client = NewClient
    /\ pipe = NoPipe

Call(op, res, len, sent, had, prev) ==
    [op |-> op, res |-> res, len |-> len, sent |-> sent, had |-> had,
     prev |-> [op |-> prev.op, res |-> prev.res]]

\* the outcome of a call on the server session: a panic ends the caller and
\* closes its handles
ServerCalled(op, r, len) ==
    /\ server' = r.srv
    /\ pipe' = IF r.res = "Panic" THEN ServerEndGone(r.pipe, "none") ELSE r.pipe
    /\ hpc' = IF r.res = "Panic" THEN [hpc EXCEPT !.srv = "panicked"] ELSE hpc
    /\ last' = [last EXCEPT !.srv =
                   Call(op, r.res, len,
                        IF Len(r.pipe.s2c) > Len(pipe.s2c) THEN 1 ELSE 0,
                        IsSome(server.buffer), last.srv)]

ClientCalled(op, r, len) ==
    /\ client' = r.cli
    /\ pipe' = IF r.res = "Panic" THEN ClientEndGone(r.pipe) ELSE r.pipe
    /\ hpc' = IF r.res = "Panic" THEN [hpc EXCEPT !.cli = "panicked"] ELSE hpc
    /\ last' = [last EXCEPT !.cli =
                   Call(op, r.res, len,
                        IF Len(r.pipe.c2s) > Len(pipe.c2s) THEN 1 ELSE 0,
                        IsSome(client.buffer), last.cli)]

HStart ==
    /\ hpc.srv = "running"
    /\ IsNone(twin)
    /\ \E osOk \in BOOLEAN : ServerCalled("start", ServerStart(server, pipe, osOk), 0)
    /\ UNCHANGED <<client, accepted, twin, fvars, srvvars, clivars, histvars>>

HWait ==
    /\ hpc.srv = "running"
    /\ IsNone(twin)
    /\ accepted < MaxConns
    /\ ServerWaitReady(server, pipe)
    /\ LET r == ServerWait(server, pipe)
       IN  /\ ServerCalled("wait", r, 0)
           /\ accepted' = IF r.res = "Ok" THEN accepted + 1 ELSE accepted
    /\ UNCHANGED <<client, twin, fvars, srvvars, clivars, histvars>>

\* wait_ms: the client is there in time, or the timeout passes first
HWaitMs ==
    /\ hpc.srv = "running"
    /\ IsNone(twin)
    /\ accepted < MaxConns
    /\ LET r == ServerWaitMs(server, pipe, pipe.inst # "connected")
       IN  /\ ServerCalled("wait_ms", r, 0)
           /\ accepted' = IF r.res = "Ok" THEN accepted + 1 ELSE accepted
    /\ UNCHANGED <<client, twin, fvars, srvvars, clivars, histvars>>

HRead ==
    /\ hpc.srv = "running"
    /\ IsNone(twin)
    /\ ServerReadReady(server, pipe)
    /\ \E io \in IoOutcomes : ServerCalled("read", ServerRead(server, pipe, io), 0)
    /\ UNCHANGED <<client, accepted, twin, fvars, srvvars, clivars, histvars>>

HWrite(v) ==
    /\ hpc.srv = "running"
    /\ IsNone(twin)
    /\ Len(pipe.s2c) < MaxQueue
    /\ ServerCalled("write", ServerWrite(server, pipe, v), ToLine(v).len)
    /\ UNCHANGED <<client, accepted, twin, fvars, srvvars, clivars, histvars>>

HDisconnect ==
    /\ hpc.srv = "running"
    /\ IsNone(twin)
    /\ ServerCalled("disconnect", ServerDisconnect(server, pipe), 0)
    /\ UNCHANGED <<client, accepted, twin, fvars, srvvars, clivars, histvars>>

\* clone(&self): the caller holds the clone next to the original, which the
\* call leaves as it is; the panic inside clone() ends the caller
HClone ==
    /\ hpc.srv = "running"
    /\ IsNone(twin)
    /\ \E osOk \in BOOLEAN :
         LET r == ServerClone(server, pipe, osOk)
         IN  /\ server' = r.srv
             /\ pipe' = IF r.res = "Panic" THEN ServerEndGone(r.pipe, "none")
                        ELSE r.pipe
             /\ hpc' = IF r.res = "Panic" THEN [hpc EXCEPT !.srv = "panicked"]
                       ELSE hpc
             /\ last' = IF r.res = "Panic"
                        THEN [last EXCEPT !.srv =
                                 Call("clone", r.res, 0, 0,
                                      IsSome(server.buffer), last.srv)]
                        ELSE last
             /\ twin' = IF IsNone(r.clone) THEN None
                        ELSE Some([srv |-> Unwrap(r.clone),
                                   started |-> server.started_server,
                                   listening |-> IsSome(server.connecting_server),
                                   connected |-> IsSome(server.buffer)])
    /\ UNCHANGED <<client, accepted, fvars, srvvars, clivars, histvars>>

\* the caller drops the clone: its listener instance, if any, closes with it
HDropClone ==
    /\ IsSome(twin)
    /\ twin' = None
    /\ UNCHANGED <<server, client, pipe, hpc, last, accepted>>
    /\ UNCHANGED <<fvars, srvvars, clivars, histvars>>

CConnect ==
    /\ hpc.cli = "running"
    /\ IsNone(twin)
    /\ ClientConnectReady(pipe)
    /\ ClientCalled("connect", ClientConnect(client, pipe), 0)
    /\ UNCHANGED <<server, accepted, twin, fvars, srvvars, clivars, histvars>>

CRead ==
    /\ hpc.cli = "running"
    /\ IsNone(twin)
    /\ ClientReadReady(client, pipe)
    /\ \E io \in IoOutcomes : ClientCalled("read", ClientRead(client, pipe, io), 0)
    /\ UNCHANGED <<server, accepted, twin, fvars, srvvars, clivars, histvars>>

CWrite(v) ==
    /\ hpc.cli = "running"
    /\ IsNone(twin)
    /\ Len(pipe.c2s) < MaxQueue
    /\ ClientCalled("write", ClientWrite(client, pipe, v), ToLine(v).len)
    /\ UNCHANGED <<server, accepted, twin, fvars, srvvars, clivars, histvars>>

\* the PipeClient value is dropped and a new one made
CDrop ==
    /\ hpc.cli = "running"
    /\ IsNone(twin)
    /\ client.connected
    /\ client' = NewClient
    /\ pipe' = IF IsSome(client.buffer) THEN ClientEndGone(pipe) ELSE pipe
    /\ last' = [last EXCEPT !.cli = Call("new", "Ok", 0, 0,
                                         IsSome(client.buffer), last.cli)]
    /\ UNCHANGED <<server, hpc, accepted, twin, fvars, srvvars, clivars, histvars>>

LibNext ==
    \/ HStart
    \/ HWait
    \/ HWaitMs
    \/ HRead
    \/ \E v \in LibPayloads : HWrite(v)
    \/ HDisconnect
    \/ HClone
    \/ HDropClone
    \/ CConnect
    \/ CRead
    \/ \E v \in LibPayloads : CWrite(v)
    \/ CDrop

LibSpec == LibInit /\ [][LibNext]_vars

\* ------------------------------------------------------------------------
\* Properties
\* ------------------------------------------------------------------------

\* the lines of a buffer whose lines end in \n
RECURSIVE FindLF(_, _)
FindLF(s, i) ==
    IF i > Len(s) THEN 0
    ELSE IF s[i] = LF THEN i
    ELSE FindLF(s, i + 1)

RECURSIVE LinesLF(_)
LinesLF(s) ==
    IF Len(s) = 0 THEN <<>>
    ELSE LET i == FindLF(s, 1)
         IN  IF i = 0 THEN <<s>>
             ELSE <<SubSeq(s, 1, i - 1)>> \o LinesLF(SubSeq(s, i + 1, Len(s)))

NoneNone(resp) == IsNone(resp.exit_code) /\ IsNone(resp.env_vars)

\* C1 (Spec): pull is a destructive read.  The first pull served after a push
\* carries the exit code and the block that push stored; a second pull with no
\* push in between carries exit_code = None and environment block = None.
C1_PullIsDestructive ==
    /\ (gPulls = 1 /\ IsSome(gPush)) =>
          /\ IsSome(gResp)
          /\ Unwrap(gResp).exit_code = Unwrap(gPush).exit_code
          /\ Unwrap(gResp).env_vars = Unwrap(gPush).env_vars
    /\ gPulls = 2 => (IsSome(gResp) /\ NoneNone(Unwrap(gResp)))
    /\ gPulls >= 1 => NoneNone(server_data)

\* C1 witness: a push stored a non-empty block and two pulls were served since
C1_Witness ==
    /\ gPulls = 2
    /\ IsSome(gPush)
    /\ Unwrap(gPush).env_vars # Some(<<>>)
    /\ IsSome(gResp)

\* C2 (PureSpec): the diff holds exactly one KEY=VALUE line for every key of the
\* new mapping that is absent from the baseline or whose value differs from the
\* baseline's, with the new value; it holds no line for a key whose value is
\* unchanged and none for a key only the baseline has.
C2_DiffExact ==
    fstage = "diffed" =>
        LET want == {k \in DOMAIN fEnv :
                        ~(k \in DOMAIN fOld) \/ fEnv[k] # fOld[k]}
            ls == LinesLF(fBuf)
        IN  /\ Len(ls) = Cardinality(want)
            /\ {ls[i] : i \in 1 .. Len(ls)} = {k \o <<EQ>> \o fEnv[k] : k \in want}

\* C2 witness: a diff of two mappings that share an unchanged key and a
\* modified key
C2_Witness ==
    /\ fstage = "diffed"
    /\ \E k \in DOMAIN fEnv \cap DOMAIN fOld : fEnv[k] = fOld[k]
    /\ \E k \in DOMAIN fEnv \cap DOMAIN fOld : fEnv[k] # fOld[k]

\* C3 (Spec): the first pull served after a push carries the push's exit code
\* and, as its block, the selected KEY=VALUE pairs joined with \n, with no
\* trailing separator and no other change to any value.
C3_PullCarriesJoinedDiff ==
    (gPulls = 1 /\ IsSome(gPush)) =>
        /\ IsSome(gResp)
        /\ Unwrap(gResp).exit_code = Unwrap(gPush).exit_code
        /\ Unwrap(gResp).env_vars = Some(Unwrap(gPush).claimed)

\* C4 (Spec): a PushEnvironment that finds no baseline does not end the server:
\* the server process never stops on the missing baseline.
C4_MissingBaselineServiceable ==
    ~(spc = "panicked" /\ sfail = "MissingBaseline")

\* C7 (Spec): a read error, an undecodable line, a peer that closes without
\* sending a line, or a request without a command never ends the server process.
C7_ConnectionFailuresAreLocal ==
    spc = "panicked" =>
        ~(sfail \in {"ErrIo", "ErrDecode", "ErrTooLarge", "NoLine", "NoCommand"})

\* C9 as stated (Spec): when the server reaches disconnect it has read exactly
\* one request line and written exactly one response line, whatever the request.
C9_OneReplyPerRequest ==
    spc = "disconnect" => (nRead = 1 /\ nWritten = 1)

\* C9 as amended (Spec): on every connection the server reads at most one
\* request line; when it reaches disconnect it has read exactly one, and it has
\* written exactly one response line if the request was PullEnvironment and
\* none if it was PushEnvironment or PushBaselineEnvironment.
C9_OneReplyPerPull ==
    /\ nRead <= 1
    /\ nWritten <= 1
    /\ spc = "disconnect" =>
          /\ nRead = 1
          /\ nWritten = (IF data.command = Some("ReadEnv") THEN 1 ELSE 0)

\* C9 witness: the server is about to disconnect after a PushEnvironment it
\* read and did not answer
C9_Witness ==
    /\ spc = "disconnect"
    /\ data.command = Some("SaveEnv")
    /\ nRead = 1
    /\ nWritten = 0

\* C5 (LibSpec): a read of PipeServer or PipeClient entered with a stream in the
\* slot returns with the stream back in the slot, on the error paths too.
C5_ReadRestoresStream ==
    /\ (last.srv.op = "read" /\ last.srv.had) => IsSome(server.buffer)
    /\ (last.cli.op = "read" /\ last.cli.had) => IsSome(client.buffer)

\* a write call whose serialized length is over the session's outbound limit
TooLargeWrite(c) == c.op = "write" /\ c.res = "ErrTooLarge"

\* C6 (LibSpec): a PipeServer write over the outbound limit fails with the
\* payload-too-large error and writes nothing, and the write that follows it on
\* the same connection, within the limit and with the client end still open,
\* succeeds.
C6_TooLargeWriteKeepsTransport ==
    /\ (last.srv.op = "write" /\ last.srv.had
          /\ last.srv.len > server.out_buffer) =>
             (last.srv.res = "ErrTooLarge" /\ last.srv.sent = 0)
    /\ (last.srv.op = "write" /\ TooLargeWrite(last.srv.prev)
          /\ last.srv.len <= server.out_buffer
          /\ pipe.conn \in {"both", "serverGone"}) =>
             last.srv.res = "Ok"

\* C8 (LibSpec): after the one successful start(), every successful
\* disconnect() leaves the session Listening (slot empty, listener handle
\* present, pipe instance listening, no second start), and the wait() that
\* follows it accepts the next client.
C8_DisconnectRearms ==
    /\ (last.srv.op = "disconnect" /\ last.srv.res = "Ok") =>
          /\ IsNone(server.buffer)
          /\ IsSome(server.connecting_server)
          /\ server.started_server
          /\ pipe.inst \in {"listening", "connected"}
    /\ (last.srv.op = "wait" /\ last.srv.prev.op = "disconnect"
          /\ last.srv.prev.res = "Ok") =>
          /\ last.srv.res = "Ok"
          /\ IsSome(server.buffer)
          /\ IsNone(server.connecting_server)
          /\ pipe.inst = "connected"
          /\ accepted >= 2

\* C8 witness: the session accepted MaxConns clients, the last one by a wait()
\* that followed a disconnect()
C8_Witness ==
    /\ accepted = MaxConns
    /\ last.srv.op = "wait"
    /\ last.srv.res = "Ok"
    /\ last.srv.prev.op = "disconnect"
    /\ last.srv.prev.res = "Ok"

\* C10 (LibSpec): a wait_ms() that no client answers in time returns a timeout
\* outcome, the caller keeps running and the session keeps its listener.
C10_WaitMsTimeoutKeepsListener ==
    (last.srv.op = "wait_ms" /\ ~(last.srv.res \in {"Ok", "ErrNotConnected"})) =>
        /\ last.srv.res = "Timeout"
        /\ hpc.srv = "running"
    /\ IsNone(twin)
        /\ IsSome(server.connecting_server)
        /\ pipe.inst = "listening"

\* C11 (LibSpec): a clone never holds a connected stream, a clone of a session
\* that was started (Listening or Connected at the call) is itself started and
\* holds its own listener, and a clone of a never-started session is not
\* started and holds no listener.
C11_CloneOfStartedIsStarted ==
    IsSome(twin) =>
        LET t == Unwrap(twin)
        IN  /\ IsNone(t.srv.buffer)
            /\ t.srv.started_server = t.started
            /\ IsSome(t.srv.connecting_server) = t.started

\* C12 (LibSpec): a start() on a session that was already started, Listening or
\* Connected, fails with the already-exists error and leaves the listener
\* handle, the stream, the started flag and the pipe as they were; a start()
\* that creates a listener is a start() on a session not started before.
C12_SecondStartFails ==
    [][HStart =>
          /\ server.started_server =>
                /\ last'.srv.res = "ErrAlreadyExists"
                /\ server' = server
                /\ pipe' = pipe
          /\ last'.srv.res = "Ok" =>
                /\ ~server.started_server
                /\ IsNone(server.connecting_server)
                /\ IsSome(server'.connecting_server)
                /\ server'.started_server]_vars

\* C12 witness: start() was refused on a session that holds a connected stream
C12_Witness ==
    /\ last.srv.op = "start"
    /\ last.srv.res = "ErrAlreadyExists"
    /\ IsSome(server.buffer)
    /\ server.started_server
    /\ pipe.inst = "connected"

\* C13 (PureSpec): parsing a raw block never fails on a record without '=' or
\* with an empty key: the record is dropped, the rest of the block is parsed,
\* and the empty key is no key of the resulting mapping.
C13_BadRecordsDropped ==
    /\ fstage # "panicked"
    /\ fstage \in {"parsed", "diffed"} =>
          ~(<<>> \in (DOMAIN fOld \cup DOMAIN fEnv))

\* no key holds '=', \r or \n
KeysClean(m) ==
    \A k \in DOMAIN m : \A i \in 1 .. Len(k) : ~(k[i] \in {EQ, CR, LF})

Served(cmd) ==
    spc = "match" /\ data.command = Some(cmd) /\ spc' = "disconnect"

\* C15 (Spec): a served PushBaselineEnvironment stores exactly the mapping of
\* its own block, whatever baseline was stored before; a served PushEnvironment
\* stores the diff against the stored baseline and leaves no baseline; a
\* PushEnvironment that finds no baseline is not served; and no other step of a
\* running server changes the baseline.
C15_BaselineReplacedAndConsumed ==
    [][/\ Served("OldEnv") =>
             old_env' = Some(ParseEnv(Unwrap(data.env_vars)).env)
       /\ Served("SaveEnv") =>
             /\ IsSome(old_env)
             /\ old_env' = None
             /\ LET new_env == ParseEnv(Unwrap(data.env_vars)).env
                IN  \E order \in Orders(DOMAIN new_env) :
                       server_data'.env_vars =
                          Some(TrimEnd(DiffLoop(order, 1, Unwrap(old_env),
                                                new_env, <<>>)))
       /\ (spc = "match" /\ data.command = Some("SaveEnv")
             /\ IsNone(old_env) /\ spc' # spc) =>
             /\ spc' = "panicked"
             /\ sfail' \in {"NoEnvVars", "Parse", "MissingBaseline"}
       /\ old_env' # old_env =>
             \/ Served("OldEnv")
             \/ Served("SaveEnv")
             \/ spc' = "panicked"]_vars

\* C15 witness: after a served push, with no baseline pushed since, the next
\* push found no baseline
C15_Witness ==
    /\ spc = "panicked"
    /\ sfail = "MissingBaseline"
    /\ IsSome(gPush)

\* C16 (LibSpec): on a PipeClient that no connect() has connected, write and
\* read fail with the not-connected error and change neither the session nor
\* the pipe; a connect() that fails leaves the session as it was, not
\* connected; and only a successful connect() makes a session connected.
C16_NotConnectedCallsFail ==
    [][/\ ((CRead \/ \E v \in LibPayloads : CWrite(v)) /\ ~client.connected) =>
             /\ last'.cli.res = "ErrNotFound"
             /\ client' = client
             /\ pipe' = pipe
       /\ (CConnect /\ last'.cli.res # "Ok") =>
             /\ client' = client
             /\ pipe' = pipe
       /\ (client'.connected /\ ~client.connected) =>
             /\ last'.cli.op = "connect"
             /\ last'.cli.res = "Ok"]_vars

\* C16 witness: a write or read was refused right after a failed connect()
C16_Witness ==
    /\ last.cli.op \in {"read", "write"}
    /\ last.cli.res = "ErrNotFound"
    /\ last.cli.prev.op = "connect"
    /\ last.cli.prev.res = "ErrIo"
    /\ ~client.connected
    /\ IsNone(client.buffer)

\* C17 (PureSpec): the pipe name new() computes is a fixed point of the
\* normalization; a name that starts with the prefix is kept as it is and any
\* other name gets the prefix put in front once; PipeServer::new and
\* PipeClient::new compute the same pipe name from the same name.
C17_NormalizeIdempotent ==
    fstage = "named" =>
        LET n == Unwrap(fServerName)
        IN  /\ CheckPipeNameSyntax(n) = n
            /\ StartsWith(fName, PipeSyntax) => n = fName
            /\ ~StartsWith(fName, PipeSyntax) =>
                  /\ n = PipeSyntax \o fName
                  /\ Len(n) = Len(fName) + Len(PipeSyntax)
            /\ fClientName = fServerName

\* C17 witness: new() was given a name that already carried the prefix, with
\* more characters behind it, and kept it
C17_Witness ==
    /\ fstage = "named"
    /\ StartsWith(fName, PipeSyntax)
    /\ Len(fName) > Len(PipeSyntax)
    /\ fServerName = Some(fName)
    /\ fClientName = Some(fName)

\* C18 (Spec): in every reachable state the stored exit code is present if and
\* only if the stored block is present; while the server runs and no pull was
\* served since the last served push, both are what that push stored.
C18_ExitCodeIffBlock ==
    /\ IsSome(server_data.exit_code) = IsSome(server_data.env_vars)
    /\ (spc # "panicked" /\ IsSome(gPush) /\ gPulls = 0) =>
          /\ server_data.exit_code = Unwrap(gPush).exit_code
          /\ server_data.env_vars = Unwrap(gPush).env_vars
    /\ (spc # "panicked" /\ IsNone(gPush)) => NoneNone(server_data)

\* C18 witness: between two exchanges, after a served push and before any
\* pull, the server holds an exit code and a block
C18_Witness ==
    /\ spc = "wait"
    /\ IsSome(gPush)
    /\ gPulls = 0
    /\ IsSome(server_data.exit_code)
    /\ IsSome(server_data.env_vars)

\* C19 (Spec): a served PushBaselineEnvironment leaves the stored exit code and
\* block as they were; a served PullEnvironment leaves the stored baseline as it
\* was; and a served PushEnvironment stores the diff against the mapping of the
\* last baseline push's block, whether or not a pull was served in between.
C19_HandlersKeepTheirFrame ==
    [][/\ Served("OldEnv") =>
             /\ server_data'.exit_code = server_data.exit_code
             /\ server_data'.env_vars = server_data.env_vars
       /\ Served("ReadEnv") => old_env' = old_env
       /\ Served("SaveEnv") =>
             /\ IsSome(gBase)
             /\ LET new_env == ParseEnv(Unwrap(data.env_vars)).env
                IN  \E order \in Orders(DOMAIN new_env) :
                       server_data'.env_vars =
                          Some(TrimEnd(DiffLoop(order, 1, Unwrap(gBase).env,
                                                new_env, <<>>)))]_vars

\* C19 witness: a push was served after a baseline push with a pull served in
\* between, and stored a diff that is not empty
C19_Witness ==
    /\ spc = "disconnect"
    /\ data.command = Some("SaveEnv")
    /\ IsSome(gPush)
    /\ Unwrap(gPush).pulled
    /\ Unwrap(gPush).env_vars # Some(<<>>)
    /\ server_data.env_vars = Unwrap(gPush).env_vars

\* a client in one of the three modes has connected to the Listening server,
\* a push client with a baseline stored
Exchanging(mode) ==
    /\ cpc = "write"
    /\ cargs.mode = mode
    /\ spc = "wait"
    /\ mode = "saveenv" => IsSome(old_env)

\* the client process has ended and the server is Listening again
Settled ==
    /\ cpc = "none"
    /\ spc = "wait"
    /\ IsSome(server.connecting_server)
    /\ IsNone(server.buffer)
    /\ pipe.inst = "listening"
    /\ pipe.conn = "idle"

\* C20 (LiveSpec): from every state in which a client in push-baseline mode,
\* in push mode with a baseline stored, or in pull mode has connected to the
\* Listening server, the run reaches a state in which the client has ended
\* (the pull client having printed the reply) and the server is Listening
\* again: neither side stays blocked on the other.
C20_ExchangeCompletes ==
    /\ Exchanging("oldenv") ~> (Settled /\ IsSome(old_env))
    /\ Exchanging("saveenv") ~> (Settled /\ IsSome(gPush))
    /\ Exchanging("readenv") ~> (Settled /\ cout = "printed")

\* the same exchanges when the block the client sends is one the parser takes
\* (every record of it has a '='): these all complete
WellFormed == ParseEnv(cargs.stdin).ok

ExchangeOfParsedBlockCompletes ==
    /\ (Exchanging("oldenv") /\ WellFormed) ~> (Settled /\ IsSome(old_env))
    /\ (Exchanging("saveenv") /\ WellFormed) ~> (Settled /\ IsSome(gPush))
    /\ Exchanging("readenv") ~> (Settled /\ cout = "printed")

====
